---------------------------- MODULE Spec2Model ----------------------------
(***************************************************************************)
(* Model of tk_capture.py: the one-shot face capture tool.                 *)
(*                                                                         *)
(* Strings are sequences of one-character strings, so that sanitisation,   *)
(* stripping and formatting are computed character by character as the     *)
(* code computes them.  Optional values (Python's None) are sequences of   *)
(* length 0 or 1: None is << >> and a value v is << v >>.                   *)
(***************************************************************************)
EXTENDS Integers, Sequences, FiniteSets, TLC

(* ------------------------------ settings ------------------------------ *)
REQUIRED_CONSEC == 3
TIMEOUT_SECS == 25
CAM_INDEX == 0
OUTPUT_DIR == <<"c","a","p","t","u","r","e","s">>

(* ------------------------------- bounds ------------------------------- *)
\* the wall clock is followed up to MaxClock seconds after program start
MaxClock == 27
\* a frame shows 0..MaxFaces faces and has one of NumPix picture contents
MaxFaces == 1
NumPix == 2
\* longest input string given to safe_filename in SpecSF
MaxLen == 3

None == << >>
Some(v) == << v >>

(* ------------------------------ characters ---------------------------- *)
Letters ==
  {"a","b","c","d","e","f","g","h","i","j","k","l","m",
   "n","o","p","q","r","s","t","u","v","w","x","y","z",
   "A","B","C","D","E","F","G","H","I","J","K","L","M",
   "N","O","P","Q","R","S","T","U","V","W","X","Y","Z"}
DigitChars == <<"0","1","2","3","4","5","6","7","8","9">>
Digits == {DigitChars[i] : i \in 1..10}

\* str.isalnum() of one character
isalnum(c) == c \in Letters \cup Digits

\* keep = "-_.() "
keep == {"-", "_", ".", "(", ")", " "}

\* faulty variant: keeps only the punctuation, and turns a space into "_"
SafeCharNoSpace(c) == IF isalnum(c) \/ c \in (keep \ {" "}) THEN c ELSE "_"

\* c if c.isalnum() or c in keep else "_"
SafeChar(c) == IF isalnum(c) \/ c \in keep THEN c ELSE "_"

\* faulty variant: drops the characters it should replace
RECURSIVE safe_filename_dropping(_)
safe_filename_dropping(s) ==
  IF s = << >> THEN << >>
  ELSE IF SafeChar(Head(s)) = Head(s)
       THEN <<Head(s)>> \o safe_filename_dropping(Tail(s))
       ELSE safe_filename_dropping(Tail(s))

\* "".join(... for c in s)
safe_filename(s) == [i \in 1..Len(s) |-> SafeChar(s[i])]

\* str.strip(): leading and trailing whitespace removed
RECURSIVE lstrip(_)
lstrip(s) == IF s # << >> /\ Head(s) = " " THEN lstrip(Tail(s)) ELSE s
RECURSIVE rstrip(_)
rstrip(s) ==
  IF s # << >> /\ s[Len(s)] = " " THEN rstrip(SubSeq(s, 1, Len(s) - 1)) ELSE s
strip(s) == rstrip(lstrip(s))

(* ----------------------------- timestamps ----------------------------- *)
MONTH_ABBR ==
  << <<"J","a","n">>, <<"F","e","b">>, <<"M","a","r">>, <<"A","p","r">>,
     <<"M","a","y">>, <<"J","u","n">>, <<"J","u","l">>, <<"A","u","g">>,
     <<"S","e","p","t">>, <<"O","c","t">>, <<"N","o","v">>, <<"D","e","c">> >>

\* str(n) of a natural number
RECURSIVE str(_)
str(n) ==
  IF n < 10 THEN <<DigitChars[n + 1]>>
  ELSE str(n \div 10) \o <<DigitChars[(n % 10) + 1]>>

\* strftime of a two-digit, zero-padded field (%I, %M)
TwoDigits(n) == <<DigitChars[(n \div 10) + 1], DigitChars[(n % 10) + 1]>>

\* str.lstrip("0")
RECURSIVE lstrip0(_)
lstrip0(s) == IF s # << >> /\ Head(s) = "0" THEN lstrip0(Tail(s)) ELSE s

\* the hour of the 12-hour clock, 12 for midnight and noon
Hour12(h) == IF h % 12 = 0 THEN 12 ELSE h % 12

\* "7 Sept, 7:00 am"
format_pretty_now(dt) ==
  LET day    == str(dt.day)
      month  == MONTH_ABBR[dt.month]
      stripd == lstrip0(TwoDigits(Hour12(dt.hour)))
      hour12 == IF stripd = << >> THEN <<"0">> ELSE stripd
      minute == TwoDigits(dt.minute)
      ampm   == IF dt.hour < 12 THEN <<"a","m">> ELSE <<"p","m">>
  IN  day \o <<" ">> \o month \o <<",", " ">> \o hour12 \o <<":">> \o minute
        \o <<" ">> \o ampm

\* datetime.astimezone().isoformat(), kept as its fields
isoformat(dt) == <<"iso", dt.month, dt.day, dt.hour, dt.minute>>

\* the moments datetime.now() is observed at
Datetimes ==
  { [day |-> 7,  month |-> 9,  hour |-> 7,  minute |-> 0],
    [day |-> 31, month |-> 12, hour |-> 12, minute |-> 5] }

(* ------------------------------- inputs ------------------------------- *)
JaneDoe == <<"J","a","n","e"," ","D","o","e">>
Seat12A == <<"1","2","A">>
\* what the user may have typed into the Name and Seat No. entries
FormNames == {JaneDoe, <<" ">>}
FormSeats == {Seat12A, << >>}

\* the profile file: absent; not JSON (or unreadable); a JSON list; a JSON
\* object whose name is a number; a JSON object with two strings
NoFile == [kind |-> "missing", name |-> << >>, seat |-> << >>]
ProfileObject(n, s) == [kind |-> "object", name |-> n, seat |-> s]
ProfileFiles ==
  { NoFile,
    [kind |-> "garbled", name |-> << >>, seat |-> << >>],
    [kind |-> "list",    name |-> << >>, seat |-> << >>],
    [kind |-> "numname", name |-> << >>, seat |-> Seat12A],
    ProfileObject(JaneDoe, Seat12A),
    ProfileObject(<<" ">>, Seat12A) }

\* a frame read from the camera: its picture and the faces a detector finds
Frames == [pix : 1..NumPix, faces : 0..MaxFaces]

\* the strings safe_filename is applied to in SpecSF
Alphabet == {"a", "7", " ", "_", "/", ":"}
RECURSIVE StringsUpTo(_)
StringsUpTo(n) ==
  IF n = 0 THEN {<< >>}
  ELSE LET shorter == StringsUpTo(n - 1)
       IN  shorter \cup {Append(s, c) : s \in shorter, c \in Alphabet}

(* -------------------------------- state ------------------------------- *)
VARIABLES
  pc,            \* where the process is
  mode,          \* "none", "headless" or "gui"
  TK_AVAILABLE,  \* whether tkinter could be imported
  root,          \* the Tk window: "none", "shown", "withdrawn", "destroyed"
  profile,       \* the file at PROFILE_PATH
  name, seat,    \* the arguments of capture_once
  use_dnn,       \* OneShotDetector.use_dnn
  cap,           \* the camera handle: "none", "failed", "open", "released"
  released,      \* how many times cap.release() was called
  start, now,    \* time.time() at loop start, and the wall clock
  streak,        \* consecutive frames with a detection
  recent,        \* for each of the last REQUIRED_CONSEC frames given to the
                 \* detector, whether it found a face
  frame,         \* the frame last read
  result,        \* what capture_once returned, None while it has not
  fs,            \* the files under OUTPUT_DIR: a set of <<path, bytes>>
  stdout,        \* the marker lines printed, in order: USER_DETAILS, present,
                 \* [saved], Device opened without face, PAYLOAD_JSON
  stderr,        \* the [error], [fatal] and [save_error] messages and the
                 \* tracebacks printed to stderr
  SENDER_READY_PAYLOAD,
  exitCode,      \* the process exit status, None while it runs
  sfIn, sfOut, sfAgain   \* SpecSF: an input of safe_filename and its images

vars == <<pc, mode, TK_AVAILABLE, root, profile, name, seat, use_dnn, cap,
          released, start, now, streak, recent, frame, result, fs, stdout,
          stderr, SENDER_READY_PAYLOAD, exitCode, sfIn, sfOut, sfAgain>>

captureVars == <<use_dnn, cap, released, start, now, streak, recent, frame,
                 result, fs>>
sfVars == <<sfIn, sfOut, sfAgain>>

LoopPcs == {"read", "failpath", "detect"}

(* ------------------------------- helpers ------------------------------ *)
\* load_profile(): the parsed JSON, None on any exception
load_profile(file) ==
  IF file.kind \in {"missing", "garbled"} THEN None ELSE Some(file)

\* what main() does with the loaded profile: lines 366-369
ProfileUse(prof) ==
  IF prof = None THEN "gui"
  ELSE IF prof[1].kind = "list" THEN "raise"       \* list has no .get
  ELSE IF prof[1].kind = "numname" THEN "raise"    \* int has no .strip
  ELSE IF prof[1].name # << >> /\ prof[1].seat # << >> THEN "headless"
  ELSE "gui"

\* OneShotDetector.__init__ and _load: the backend used, or "raise"
LoadDetector(dnnFiles, dnnLoads, haarLoads) ==
  IF dnnFiles /\ dnnLoads THEN "dnn"
  ELSE IF haarLoads THEN "haar"
  ELSE "raise"

detector_used == IF use_dnn THEN "dnn" ELSE "haar"

name_sf == safe_filename(strip(name))
seat_sf == safe_filename(strip(seat))

\* Path(OUTPUT_DIR) / f"{name_sf}_{seat_sf}_{safe_filename(pretty)}.jpg"
FileName(nsf, ssf, dt) ==
  nsf \o <<"_">> \o ssf \o <<"_">> \o safe_filename(format_pretty_now(dt))
      \o <<".", "j", "p", "g">>
OutPath(nsf, ssf, dt) == OUTPUT_DIR \o <<"/">> \o FileName(nsf, ssf, dt)

\* the bytes cv2.imwrite encodes a frame to
JpegBytes(f) == <<255, 216>> \o [i \in 1..f.pix |-> f.faces] \o <<255, 217>>

Exists(files, path) == \E e \in files : e[1] = path
FileBytes(files, path) == (CHOOSE e \in files : e[1] = path)[2]
\* cv2.imwrite succeeding: the file at path now holds the encoded frame
imwrite(files, path, f) ==
  {e \in files : e[1] # path} \cup {<<path, JpegBytes(f)>>}

\* hashlib.sha256(bytes).hexdigest(): one digest per byte string
sha256(bytes) == <<"sha256">> \o bytes

\* faulty variant: compares against a deadline one second late
TimedOutLate(t, t0) == (t - t0) > TIMEOUT_SECS + 1
\* faulty variant: subtracts the wrong way round, and so never times out
TimedOutSwapped(t, t0) == (t0 - t) > TIMEOUT_SECS

\* (time.time() - start) > TIMEOUT_SECS
TimedOut(t, t0) == (t - t0) > TIMEOUT_SECS

\* faulty variant: does not reset the streak on a frame without a face
NextStreakNoReset(s, boxes) == IF boxes > 0 THEN s + 1 ELSE s

\* streak += 1 if len(boxes) > 0 else streak = 0
NextStreak(s, boxes) == IF boxes > 0 THEN s + 1 ELSE 0

LastN(q, n) == IF Len(q) <= n THEN q ELSE SubSeq(q, Len(q) - n + 1, Len(q))

\* faulty variant: forgets to release
ReleaseSkipped(c, n) == [cap |-> c, released |-> n]

\* finally: if cap and cap.isOpened(): cap.release()
ReleaseInFinally(c, n) ==
  IF c = "open" THEN [cap |-> "released", released |-> n + 1]
  ELSE [cap |-> c, released |-> n]

Returned(code, out_path, saved_at_iso, det) ==
  [code |-> code, out_path |-> out_path, saved_at_iso |-> saved_at_iso,
   detector_used |-> det]

\* faulty variant: returns the path of the file it failed to write
WriteFailResultWithPath(path, det) == Returned(2, Some(path), None, Some(det))

\* return 2, None, None, detector_used
WriteFailResult(path, det) == Returned(2, None, None, Some(det))

\* {0: "saved", 1: "no_face", 2: "error"}.get(code, "unknown")
StatusOf(code) ==
  CASE code = 0 -> "saved" [] code = 1 -> "no_face" [] code = 2 -> "error"
    [] OTHER -> "unknown"

\* the payload of lines 273-308 and 375-406
BuildPayload(nm, st, res, files, dt) ==
  LET readable == /\ res.out_path # None
                  /\ res.out_path[1] # << >>
                  /\ Exists(files, res.out_path[1])
      img == FileBytes(files, res.out_path[1])
  IN  [status  |-> StatusOf(res.code),
       user    |-> [name |-> nm, seat |-> st],
       capture |-> [image_path       |-> res.out_path,
                    saved_at_iso     |-> res.saved_at_iso,
                    saved_at_human   |-> format_pretty_now(dt),
                    image_sha256     |-> IF readable THEN Some(sha256(img))
                                         ELSE None,
                    image_size_bytes |-> IF readable THEN Some(Len(img))
                                         ELSE None],
       runtime |-> [detector |-> res.detector_used,
                    cam_index |-> CAM_INDEX,
                    timeout_secs |-> TIMEOUT_SECS,
                    required_consecutive_frames |-> REQUIRED_CONSEC]]

\* faulty variant: prints nothing
PrintedNothing(out, line) == out

\* print(line, flush=True)
Printed(out, line) == Append(out, line)

(* -------------------------------- Init -------------------------------- *)
Init ==
  /\ pc = "main"
  /\ mode = "none"
  /\ TK_AVAILABLE \in BOOLEAN
  /\ root = "none"
  /\ profile \in ProfileFiles
  /\ name = << >>
  /\ seat = << >>
  /\ use_dnn = FALSE
  /\ cap = "none"
  /\ released = 0
  /\ start = 0
  /\ now = 0
  /\ streak = 0
  /\ recent = << >>
  /\ frame = [pix |-> 1, faces |-> 0]
  /\ result = None
  /\ fs = {}
  /\ stdout = << >>
  /\ stderr = {}
  /\ SENDER_READY_PAYLOAD = None
  /\ exitCode = None
  /\ sfIn = << >>
  /\ sfOut = << >>
  /\ sfAgain = << >>

(* ------------------------------- main() ------------------------------- *)
\* an exception nobody catches: the traceback goes to stderr, exit status 1
Uncaught(msg) ==
  /\ pc' = "exited"
  /\ exitCode' = Some(1)
  /\ stderr' = stderr \cup {msg}

\* main(), up to the capture_once call, sys.exit(3) or the form's mainloop
Main ==
  /\ pc = "main"
  /\ \E reset \in BOOLEAN, unlinked \in BOOLEAN :
       LET removed == reset /\ profile.kind # "missing" /\ unlinked
           file    == IF removed THEN NoFile ELSE profile
           prof    == load_profile(file)
           use     == ProfileUse(prof)
       IN  /\ profile' = file
           /\ IF use = "raise"
                THEN /\ Uncaught("AttributeError")
                     /\ stdout' = stdout
                     /\ UNCHANGED <<mode, root, name, seat>>
              ELSE IF use = "headless"
                THEN /\ name' = strip(prof[1].name)
                     /\ seat' = strip(prof[1].seat)
                     /\ stdout' = stdout
                     /\ stderr' = stderr
                     /\ mode' = "headless"
                     /\ pc' = "capture"
                     /\ UNCHANGED <<root, exitCode>>
              ELSE IF ~TK_AVAILABLE
                THEN /\ stderr' = stderr \cup {"[fatal] No permanent profile"}
                     /\ stdout' = stdout
                     /\ pc' = "exited"
                     /\ exitCode' = Some(3)
                     /\ UNCHANGED <<mode, root, name, seat>>
              ELSE   /\ root' = "shown"
                     /\ mode' = "gui"
                     /\ pc' = "form"
                     /\ stdout' = stdout
                     /\ stderr' = stderr
                     /\ UNCHANGED <<name, seat, exitCode>>
  /\ UNCHANGED <<TK_AVAILABLE, captureVars, SENDER_READY_PAYLOAD, sfVars>>

(* ---------------------------- FirstRunForm ---------------------------- *)
\* _run_capture, up to the capture_once call
RunCapture(n, s, out) ==
  /\ stdout' = Printed(out, "USER_DETAILS")
  /\ root' = "withdrawn"
  /\ name' = n
  /\ seat' = s
  /\ pc' = "capture"

\* the "Start (Temporary)" button
start_temp ==
  /\ pc = "form"
  /\ root = "shown"
  /\ \E n0 \in FormNames, s0 \in FormSeats :
       LET n == strip(n0)
           s == strip(s0)
       IN  IF n = << >> \/ s = << >>
             THEN UNCHANGED <<stdout, root, name, seat, pc>>   \* showwarning
             ELSE RunCapture(n, s, stdout)
  /\ UNCHANGED <<mode, TK_AVAILABLE, profile, captureVars, stderr,
                 SENDER_READY_PAYLOAD, exitCode, sfVars>>

\* the "Permanent" button; save_profile raises when the file cannot be written
start_perm ==
  /\ pc = "form"
  /\ root = "shown"
  /\ \E n0 \in FormNames, s0 \in FormSeats, written \in BOOLEAN :
       LET n == strip(n0)
           s == strip(s0)
       IN  IF n = << >> \/ s = << >>
             THEN UNCHANGED <<stdout, root, name, seat, pc, profile, stderr>>
           ELSE IF ~written
             \* Tk reports the callback's exception and the mainloop goes on
             THEN /\ stderr' = stderr \cup {"Exception in Tkinter callback: OSError"}
                  /\ UNCHANGED <<stdout, root, name, seat, pc, profile>>
           ELSE /\ profile' = ProfileObject(n, s)
                /\ RunCapture(n, s, stdout)
                /\ UNCHANGED stderr
  /\ UNCHANGED <<mode, TK_AVAILABLE, captureVars, SENDER_READY_PAYLOAD,
                 exitCode, sfVars>>

\* WM_DELETE_WINDOW: the mainloop ends, main() returns, the process ends
on_close ==
  /\ pc = "form"
  /\ root = "shown"
  /\ root' = "destroyed"
  /\ pc' = "exited"
  /\ exitCode' = Some(0)
  /\ UNCHANGED <<mode, TK_AVAILABLE, profile, name, seat, captureVars, stdout,
                 stderr, SENDER_READY_PAYLOAD, sfVars>>

(* ---------------------- OneShotDetector.capture_once ------------------ *)
LoadFailure == "RuntimeError: Failed to load any face detector."

\* capture_once, from its first line to the loop: sanitising, _load, the camera
CaptureBegin ==
  /\ pc = "capture"
  /\ \E dnnFiles \in BOOLEAN, dnnLoads \in BOOLEAN, haarLoads \in BOOLEAN,
        opens \in BOOLEAN :
       LET det == LoadDetector(dnnFiles, dnnLoads, haarLoads)
       IN  IF name_sf = << >> \/ seat_sf = << >>
             THEN /\ stderr' = stderr \cup {"[error] Empty name/seat."}
                  /\ result' = Some(Returned(2, None, None, None))
                  /\ pc' = "returned"
                  /\ UNCHANGED <<use_dnn, cap, start, stdout, exitCode>>
           ELSE IF det = "raise"
             THEN /\ use_dnn' = FALSE
                  /\ IF mode = "headless"
                       THEN Uncaught(LoadFailure)
                       \* Tk reports the exception; the mainloop goes on with
                       \* the window withdrawn
                       ELSE /\ stderr' = stderr \cup {LoadFailure}
                            /\ pc' = "hidden"
                            /\ UNCHANGED exitCode
                  /\ UNCHANGED <<result, cap, start, stdout>>
           ELSE /\ use_dnn' = (det = "dnn")
                /\ stdout' = stdout
                /\ IF ~opens
                     THEN /\ cap' = "failed"
                          /\ stderr' = stderr \cup {"[fatal] Could not open webcam."}
                          /\ result' = Some(Returned(2, None, None, None))
                          /\ pc' = "returned"
                          /\ UNCHANGED start
                     ELSE /\ cap' = "open"
                          /\ stderr' = stderr
                          /\ start' = now
                          /\ pc' = "read"
                          /\ UNCHANGED result
                /\ UNCHANGED exitCode
  /\ streak' = 0
  /\ UNCHANGED <<mode, TK_AVAILABLE, root, profile, name, seat, released, now,
                 recent, frame, fs, SENDER_READY_PAYLOAD, sfVars>>

\* return from inside the try: the finally clause runs
ReturnFromLoop(res) ==
  /\ result' = Some(res)
  /\ cap' = ReleaseInFinally(cap, released).cap
  /\ released' = ReleaseInFinally(cap, released).released
  /\ pc' = "returned"

\* ok, frame = cap.read()
ReadFrame ==
  /\ pc = "read"
  /\ \E ok \in BOOLEAN, f \in Frames :
       IF ok THEN frame' = f /\ pc' = "detect"
             ELSE frame' = frame /\ pc' = "failpath"
  /\ UNCHANGED <<mode, TK_AVAILABLE, root, profile, name, seat, use_dnn, cap,
                 released, start, now, streak, recent, result, fs, stdout,
                 stderr, SENDER_READY_PAYLOAD, exitCode, sfVars>>

\* the read failed: sleep, then the timeout check of line 205
FailPath ==
  /\ pc = "failpath"
  /\ IF TimedOut(now, start)
       THEN /\ stdout' = Printed(stdout, "Device opened without face")
            /\ ReturnFromLoop(Returned(1, None, None, Some(detector_used)))
       ELSE /\ pc' = "read"
            /\ UNCHANGED <<stdout, result, cap, released>>
  /\ UNCHANGED <<mode, TK_AVAILABLE, root, profile, name, seat, use_dnn, start,
                 now, streak, recent, frame, fs, stderr, SENDER_READY_PAYLOAD,
                 exitCode, sfVars>>

\* the read succeeded: _detect, the streak, the save or the timeout check
Detect ==
  /\ pc = "detect"
  /\ LET boxes == frame.faces
         s     == NextStreak(streak, boxes)
     IN  /\ streak' = s
         /\ recent' = LastN(Append(recent, boxes > 0), REQUIRED_CONSEC)
         /\ IF s >= REQUIRED_CONSEC
              THEN \E dt \in Datetimes, dt2 \in Datetimes, wrote \in BOOLEAN :
                     LET out_path == OutPath(name_sf, seat_sf, dt)
                     IN  IF ~wrote
                           THEN /\ stdout' = Printed(stdout, "present")
                                /\ stderr' = stderr \cup {"[save_error]"}
                                /\ fs' = fs
                                /\ ReturnFromLoop(
                                     WriteFailResult(out_path, detector_used))
                           ELSE /\ fs' = imwrite(fs, out_path, frame)
                                /\ stdout' = Printed(Printed(stdout, "present"),
                                                     "[saved]")
                                /\ stderr' = stderr
                                /\ ReturnFromLoop(
                                     Returned(0, Some(out_path),
                                              Some(isoformat(dt2)),
                                              Some(detector_used)))
            ELSE IF TimedOut(now, start)
              THEN /\ stdout' = Printed(stdout, "Device opened without face")
                   /\ ReturnFromLoop(
                        Returned(1, None, None, Some(detector_used)))
                   /\ UNCHANGED <<fs, stderr>>
            ELSE /\ pc' = "read"
                 /\ UNCHANGED <<stdout, stderr, fs, result, cap, released>>
  /\ UNCHANGED <<mode, TK_AVAILABLE, root, profile, name, seat, use_dnn, start,
                 now, frame, SENDER_READY_PAYLOAD, exitCode, sfVars>>

\* one second passes while the loop reads, detects or sleeps
Tick ==
  /\ pc \in LoopPcs
  /\ now < MaxClock
  /\ now' = now + 1
  /\ UNCHANGED <<pc, mode, TK_AVAILABLE, root, profile, name, seat, use_dnn,
                 cap, released, start, streak, recent, frame, result, fs,
                 stdout, stderr, SENDER_READY_PAYLOAD, exitCode, sfVars>>

\* the payload is built and printed, and sys.exit(code): lines 374-414 in
\* headless mode, _finalize_payload_and_exit in the form
Finalize ==
  /\ pc = "returned"
  /\ \E dt \in Datetimes :
       SENDER_READY_PAYLOAD' =
         Some(BuildPayload(name, seat, result[1], fs, dt))
  /\ stdout' = Printed(stdout, "PAYLOAD_JSON")
  /\ root' = IF mode = "gui" THEN "destroyed" ELSE root
  /\ exitCode' = Some(result[1].code)
  /\ pc' = "exited"
  /\ UNCHANGED <<mode, TK_AVAILABLE, profile, name, seat, captureVars, stderr,
                 sfVars>>

Next ==
  \/ Main
  \/ start_temp
  \/ start_perm
  \/ on_close
  \/ CaptureBegin
  \/ ReadFrame
  \/ FailPath
  \/ Detect
  \/ Tick
  \/ Finalize

Spec == Init /\ [][Next]_vars

\* the loop's steps are taken and the wall clock advances
FairSpec ==
  /\ Init
  /\ [][Next]_vars
  /\ WF_vars(ReadFrame)
  /\ WF_vars(FailPath)
  /\ WF_vars(Detect)
  /\ WF_vars(Tick)

(* ------------------- safe_filename on bounded strings ----------------- *)
InitSF ==
  /\ pc = "sf"
  /\ mode = "none"
  /\ TK_AVAILABLE = TRUE
  /\ root = "none"
  /\ profile = NoFile
  /\ name = << >>
  /\ seat = << >>
  /\ use_dnn = FALSE
  /\ cap = "none"
  /\ released = 0
  /\ start = 0
  /\ now = 0
  /\ streak = 0
  /\ recent = << >>
  /\ frame = [pix |-> 1, faces |-> 0]
  /\ result = None
  /\ fs = {}
  /\ stdout = << >>
  /\ stderr = {}
  /\ SENDER_READY_PAYLOAD = None
  /\ exitCode = None
  /\ sfIn \in StringsUpTo(MaxLen)
  /\ sfOut = << >>
  /\ sfAgain = << >>

\* safe_filename(s)
Sanitize ==
  /\ pc = "sf"
  /\ sfOut' = safe_filename(sfIn)
  /\ pc' = "sf1"
  /\ UNCHANGED <<mode, TK_AVAILABLE, root, profile, name, seat, captureVars,
                 stdout, stderr, SENDER_READY_PAYLOAD, exitCode, sfIn, sfAgain>>

\* safe_filename(safe_filename(s))
SanitizeAgain ==
  /\ pc = "sf1"
  /\ sfAgain' = safe_filename(sfOut)
  /\ pc' = "sf2"
  /\ UNCHANGED <<mode, TK_AVAILABLE, root, profile, name, seat, captureVars,
                 stdout, stderr, SENDER_READY_PAYLOAD, exitCode, sfIn, sfOut>>

NextSF == Sanitize \/ SanitizeAgain

SpecSF == InitSF /\ [][NextSF]_vars

(* ------------------------------- claims ------------------------------- *)
HasReturned == result # None
Code == result[1].code
Elapsed == now - start
PayloadPrinted == \E i \in 1..Len(stdout) : stdout[i] = "PAYLOAD_JSON"
\* the file name of the returned path, without "captures/"
SavedFileName ==
  SubSeq(result[1].out_path[1], Len(OUTPUT_DIR) + 2, Len(result[1].out_path[1]))

\* C1 (as claimed): whenever capture_once has ended and a camera handle was
\* constructed, release was called exactly once, camera-open failure included.
C1_ReleasedOnceOnEveryBranch ==
  (HasReturned /\ cap # "none") => released = 1

\* C1 (amended): release is never called twice; when capture_once has ended,
\* a camera that was opened has been released exactly once (Saved, TimedOut,
\* Error on a failed image write), and a camera that was never opened (open
\* failure, empty name or seat) has not been released at all.
C1_ReleasedOnceIffOpened ==
  /\ released <= 1
  /\ (pc \in LoopPcs => cap = "open" /\ released = 0)
  /\ HasReturned =>
       /\ cap \in {"none", "failed", "released"}
       /\ (cap = "released" => released = 1)
       /\ (cap \in {"none", "failed"} => released = 0 /\ Code = 2)

\* C1 witness: the image write failed and the opened camera was released.
C1_Witness ==
  HasReturned /\ Code = 2 /\ cap = "released" /\ "[save_error]" \in stderr

\* C2 (as claimed): an image is never saved once the elapsed time exceeds
\* TIMEOUT_SECS.
C2_NoSaveAfterTimeout ==
  (HasReturned /\ Code = 0) => Elapsed <= TIMEOUT_SECS

\* C2 (amended): every timeout check made with the elapsed time above
\* TIMEOUT_SECS and the streak below REQUIRED_CONSEC returns TimedOut and
\* writes no image, and Saved is returned only by a detection step that
\* brings the streak to REQUIRED_CONSEC (which is tested before the timeout,
\* so such a frame is saved even after the timeout has elapsed).
C2_TimeoutCheckDecides ==
  [][ /\ (pc = "failpath" /\ Elapsed > TIMEOUT_SECS /\ pc' # pc)
           => (result' # None /\ result'[1].code = 1 /\ fs' = fs)
      /\ (pc = "detect" /\ Elapsed > TIMEOUT_SECS /\ pc' # pc
             /\ streak' < REQUIRED_CONSEC)
           => (result' # None /\ result'[1].code = 1 /\ fs' = fs)
      /\ (result = None /\ result' # None /\ result'[1].code = 0)
           => (pc = "detect" /\ streak' >= REQUIRED_CONSEC)
      /\ (result = None /\ result' # None /\ result'[1].code = 1)
           => (Elapsed > TIMEOUT_SECS /\ streak' < REQUIRED_CONSEC)
    ]_vars

\* C2 witness: timed out with a streak under way.
C2_Witness ==
  HasReturned /\ Code = 1 /\ streak > 0 /\ Elapsed > TIMEOUT_SECS /\ fs = {}

\* the number of frames with a face at the end of q
RECURSIVE TrailingHits(_)
TrailingHits(q) ==
  IF q = << >> \/ ~q[Len(q)] THEN 0
  ELSE 1 + TrailingHits(SubSeq(q, 1, Len(q) - 1))

\* C3: the streak is the number of consecutive detected frames ending at the
\* last one; an image is written only on Saved, and then the last
\* REQUIRED_CONSEC frames given to the detector all had a face and the file
\* holds the frame that completed the streak.
C3_SavedOnlyAfterConsecutiveHits ==
  /\ streak = TrailingHits(recent)
  /\ (fs # {} => HasReturned /\ Code = 0)
  /\ (HasReturned /\ Code = 0) =>
       /\ streak = REQUIRED_CONSEC
       /\ Len(recent) = REQUIRED_CONSEC
       /\ \A i \in 1..Len(recent) : recent[i]
       /\ fs = {<<result[1].out_path[1], JpegBytes(frame)>>}

\* C3 witness: an image was saved.
C3_Witness == HasReturned /\ Code = 0 /\ fs # {} /\ frame.pix = NumPix

\* C4 (as claimed): whenever the process has exited, the payload was printed.
C4_PayloadOnEveryExit == pc = "exited" => PayloadPrinted

\* C4 (amended): the payload line is printed exactly on the runs in which
\* capture_once returned a result (saved, timed out or error, headless or
\* from the form), as the last thing before the exit; a run that ends
\* without a result (no GUI toolkit, form closed, an uncaught exception) or
\* stays in the mainloop prints none.
C4_PayloadIffCaptureReturned ==
  /\ (pc = "exited" => (PayloadPrinted <=> HasReturned))
  /\ (PayloadPrinted =>
        pc = "exited" /\ SENDER_READY_PAYLOAD # None
          /\ stdout[Len(stdout)] = "PAYLOAD_JSON")

\* C4 witness: the form's capture timed out and the payload was printed.
C4_Witness ==
  pc = "exited" /\ mode = "gui" /\ HasReturned /\ Code = 1 /\ PayloadPrinted

\* C5: a run in which no detector could be loaded, or the camera did not
\* open, exits with status 2.
C5_LoadOrCameraFailureExits2 ==
  (pc = "exited"
     /\ (LoadFailure \in stderr \/ "[fatal] Could not open webcam." \in stderr))
    => exitCode = Some(2)

\* C6 (as claimed): for "Jane Doe" and "12A" the saved file is named
\* Jane_Doe_12A_<timestamp>.jpg.
C6_JaneDoeUnderscored ==
  (HasReturned /\ Code = 0 /\ name = JaneDoe /\ seat = Seat12A) =>
    SubSeq(SavedFileName, 1, 13)
      = <<"J","a","n","e","_","D","o","e","_","1","2","A","_">>

\* the sanitised timestamps of Datetimes: "," and ":" replaced, spaces kept
SanitizedStamps ==
  { <<"7"," ","S","e","p","t","_"," ","7","_","0","0"," ","a","m">>,
    <<"3","1"," ","D","e","c","_"," ","1","2","_","0","5"," ","p","m">> }

\* C6 (amended): for "Jane Doe" and "12A", when the streak reaches
\* REQUIRED_CONSEC the call ends in Saved (exit status 0) unless the image
\* write fails (Error), and the saved file is named
\* "Jane Doe_12A_<sanitised timestamp>.jpg": the space of the name is kept.
C6_JaneDoeSpaceKept ==
  (HasReturned /\ name = JaneDoe /\ seat = Seat12A
     /\ streak >= REQUIRED_CONSEC) =>
    /\ Code \in {0, 2}
    /\ (Code = 2 => "[save_error]" \in stderr)
    /\ (Code = 0 =>
          /\ \E ts \in SanitizedStamps :
               SavedFileName
                 = JaneDoe \o <<"_">> \o Seat12A \o <<"_">> \o ts
                     \o <<".","j","p","g">>
          /\ (pc = "exited" => exitCode = Some(0)))

\* C6 witness: Jane Doe's image was saved and the process has exited.
C6_Witness ==
  pc = "exited" /\ HasReturned /\ Code = 0 /\ name = JaneDoe /\ seat = Seat12A

AllowList == Letters \cup Digits \cup {"-", "_", ".", "(", ")", " "}

\* C8: safe_filename keeps the length, keeps every allowed character, puts
\* "_" in the place of every other one, and applying it twice gives the same
\* string as applying it once; a clean string is returned unchanged.
C8_SafeFilename ==
  /\ pc \in {"sf1", "sf2"} =>
       /\ Len(sfOut) = Len(sfIn)
       /\ \A i \in 1..Len(sfIn) :
            /\ sfOut[i] \in AllowList
            /\ (sfIn[i] \in AllowList => sfOut[i] = sfIn[i])
            /\ (sfIn[i] \notin AllowList => sfOut[i] = "_")
  /\ pc = "sf2" => sfAgain = sfOut

\* C8 witness: a string with two disallowed characters went through twice.
C8_Witness ==
  pc = "sf2" /\ sfIn = <<"a", "/", ":">> /\ sfOut = <<"a", "_", "_">>

SaveError == "Exception in Tkinter callback: OSError"

\* C9: when save_profile fails under the Permanent button, the capture is
\* still started.
C9_SaveFailureStillCaptures ==
  [][(SaveError \notin stderr /\ SaveError \in stderr') => pc' = "capture"]_vars

\* C10: once the loop runs, capture_once returns; and a timeout check made
\* with the elapsed time above TIMEOUT_SECS ends the loop in that iteration.
C10_LoopReturns ==
  /\ [](pc \in LoopPcs => <>(pc = "returned"))
  /\ [][(pc \in {"failpath", "detect"} /\ Elapsed > TIMEOUT_SECS /\ pc' # pc)
          => result' # None]_vars

\* C10 witness: every read failed and the call timed out.
C10_Witness ==
  HasReturned /\ Code = 1 /\ recent = << >> /\ Elapsed > TIMEOUT_SECS

=============================================================================
